---- MODULE Spec2Model ----
(***************************************************************************)
(* Conversational lesson-plan sessions of CurioCloudBackendN:              *)
(* TeachingService (app/services/teaching_service.py), the conversation    *)
(* script (app/conversation_flow.py), DynamicQuestionService               *)
(* (app/services/dynamic_question_service.py) and the lesson-plan part of  *)
(* AIService (app/services/ai_service.py).                                 *)
(*                                                                         *)
(* The database holds the committed rows.  Every HTTP request owns its own *)
(* SQLAlchemy session (app/core/database.py get_db) and therefore its own  *)
(* in-memory copy of the session row; production runs four worker          *)
(* processes (main.py:101), so requests interleave at every database       *)
(* statement: the query, each commit, and the awaited provider call.       *)
(***************************************************************************)
EXTENDS Integers, Sequences, FiniteSets, TLC

\* ---------------------------------------------------------------- bounds
MaxSessions == 2      \* sessions ever started
MaxCalls == 6         \* answer() requests ever issued

\* ------------------------------------------------------ program constants
MinQuestions == 3     \* teaching_service.py:493
MaxAIQuestions == 5   \* teaching_service.py:53
NoPlan == 0           \* lesson_plan_id is NULL

Users == {1, 2}
Requests == {1, 2}    \* two workers of the four of main.py:101
SeqRequests == {1}
SessionIds == 1 .. MaxSessions
Answers == {"", "a"}
ConcurrentAnswers == {"a"}

VARIABLES
    sessions,       \* committed lesson_creation_sessions rows, by session_id
    next_sid,       \* the next fresh session id (uuid4)
    lesson_plans,   \* committed lesson_plans rows
    activities,     \* committed lesson_plan_activities rows
    next_plan_id,   \* autoincrement of lesson_plans.id
    req,            \* per worker: position, in-memory session object, outcome
    calls,          \* answer() requests issued so far
    gen_calls,      \* per session: generate_lesson_plan invocations so far
    proc_commits,   \* per session: commits that stored status = processing so far
    plans_created,  \* per session: ids of the lesson_plans rows its finalize inserted
    answers_sent,   \* per session: answer() requests that reached a handler so far
    out             \* the last call other than answer(): what it was and what it returned

sysvars == <<sessions, next_sid, lesson_plans, activities, next_plan_id, req, calls,
             gen_calls, proc_commits, plans_created, answers_sent>>

vars == <<sysvars, out>>

\* ------------------------------------------------- app/conversation_flow.py
CONVERSATION_FLOW ==
    [start_step |-> "ask_subject",
     steps |->
       [ask_subject  |-> [question |-> "q_subject",  key_to_save |-> "subject",
                          next_step |-> "ask_grade"],
        ask_grade    |-> [question |-> "q_grade",    key_to_save |-> "grade",
                          next_step |-> "ask_topic"],
        ask_topic    |-> [question |-> "q_topic",    key_to_save |-> "topic",
                          next_step |-> "ask_duration"],
        ask_duration |-> [question |-> "q_duration", key_to_save |-> "duration_minutes",
                          next_step |-> "finalize"]]]

\* dict.get(step_key) is None
has_step_config(step_key) == step_key \in DOMAIN CONVERSATION_FLOW.steps

get_step_config(step_key) == CONVERSATION_FLOW.steps[step_key]

\* a script whose ask_grade step points past ask_topic
get_next_step_skipping(current_step) ==
    IF current_step = "ask_grade" THEN "ask_duration"
    ELSE IF has_step_config(current_step) THEN get_step_config(current_step).next_step
    ELSE "None"

\* a script whose ask_subject step points at a generated question
get_next_step_into_dynamic(current_step) ==
    IF current_step = "ask_subject" THEN "dynamic_question_2"
    ELSE IF has_step_config(current_step) THEN get_step_config(current_step).next_step
    ELSE "None"

get_next_step(current_step) ==
    IF has_step_config(current_step) THEN get_step_config(current_step).next_step
    ELSE "None"

is_final_step(step_key) == get_next_step(step_key) = "finalize"

\* ------------------------------------------------------------ dict helpers
EmptyDict == <<>>

Truthy(s) == s # ""

\* an assignment that starts the dict afresh
DictSet_fresh(d, k, v) == [x \in {k} |-> v]

DictSet(d, k, v) == [x \in (DOMAIN d) \cup {k} |-> IF x = k THEN v ELSE d[x]]

DictGet(d, k, default) == IF k \in DOMAIN d THEN d[k] ELSE default

\* ---------------------------------------------------- dynamic step keys
DynamicStep(n) == "dynamic_question_" \o ToString(n)

DynamicSteps == {DynamicStep(n) : n \in 1 .. (MaxAIQuestions + 1)}

\* current_step.startswith('dynamic_question_')
StartsWithDynamic(step) == step \in DynamicSteps

AnswerKey(n) == "question_" \o ToString(n) \o "_answer"

\* ------------------------------- app/services/dynamic_question_service.py
\* Python floats are IEEE-754 doubles.  Every value met here is a multiple of
\* 2^-56 below 2, kept as <<hi, lo>> standing for (hi * 2^28 + lo) * 2^-56.
Limb == 2^28

Double(hi, lo) == <<hi, lo>>

\* the doubles nearest to the literals of the source
D0_0 == Double(0, 0)
D0_1 == Double(26843545, 161061274)
D0_2 == Double(53687091, 53687092)
D0_6 == Double(161061273, 161061272)
D0_8 == Double(214748364, 214748368)
D1_0 == Double(Limb, 0)

\* a >= b on doubles
DoubleGE(a, b) == a[1] > b[1] \/ (a[1] = b[1] /\ a[2] >= b[2])

\* the spacing of doubles around a value with high limb hi, in units of 2^-56
Ulp(hi) ==
    IF hi >= Limb THEN 16
    ELSE IF hi >= Limb \div 2 THEN 8
    ELSE IF hi >= Limb \div 4 THEN 4
    ELSE IF hi >= Limb \div 8 THEN 2
    ELSE 1

\* a + b on doubles: the exact sum rounded to the nearest double, ties to even
DoubleAdd(a, b) ==
    LET lo_sum == a[2] + b[2]
        hi == a[1] + b[1] + (lo_sum \div Limb)
        lo == lo_sum % Limb
        u == Ulp(hi)
        r == lo % u
        down == lo - r
        up == (2 * r > u) \/ (2 * r = u /\ (down \div u) % 2 = 1)
        rounded == IF up THEN down + u ELSE down
    IN  Double(hi + (rounded \div Limb), rounded % Limb)

\* _calculate_data_completeness, lines 221-229: the weights, in dict order
key_weights ==
    <<[key |-> "subject", weight |-> D0_2], [key |-> "grade", weight |-> D0_2],
      [key |-> "topic", weight |-> D0_2], [key |-> "duration_minutes", weight |-> D0_1],
      [key |-> "teaching_method", weight |-> D0_1],
      [key |-> "student_level", weight |-> D0_1],
      [key |-> "learning_objectives", weight |-> D0_1]>>

\* a score that counts a key as given once any answer is
KeyScore_any_answer(collected_data, key) ==
    \E k \in DOMAIN collected_data : Truthy(collected_data[k])

\* line 233: if key in collected_data and collected_data[key]
KeyScore(collected_data, key) ==
    key \in DOMAIN collected_data /\ Truthy(collected_data[key])

Min(a, b) == IF DoubleGE(b, a) THEN a ELSE b

\* lines 231-234: total_score after the first n weights of the loop
RECURSIVE total_score(_, _)
total_score(collected_data, n) ==
    IF n = 0 THEN D0_0
    ELSE IF KeyScore(collected_data, key_weights[n].key)
    THEN DoubleAdd(total_score(collected_data, n - 1), key_weights[n].weight)
    ELSE total_score(collected_data, n - 1)

calculate_data_completeness(collected_data) ==
    Min(total_score(collected_data, Len(key_weights)), D1_0)

\* a policy that lets a complete answer set end the questions before the minimum
should_continue_questioning_no_minimum(collected_data, question_count, min_questions, max_questions) ==
    IF question_count >= max_questions
    THEN [should_continue |-> FALSE, reason |-> "reached_maximum", confidence |-> D1_0]
    ELSE LET completeness_score == calculate_data_completeness(collected_data) IN
         IF DoubleGE(completeness_score, D0_8)
         THEN [should_continue |-> FALSE, reason |-> "complete",
               confidence |-> completeness_score]
         ELSE [should_continue |-> TRUE, reason |-> "below_minimum", confidence |-> D1_0]

should_continue_questioning(collected_data, question_count, min_questions, max_questions) ==
    IF question_count < min_questions
    THEN [should_continue |-> TRUE, reason |-> "below_minimum", confidence |-> D1_0]
    ELSE IF question_count >= max_questions
    THEN [should_continue |-> FALSE, reason |-> "reached_maximum", confidence |-> D1_0]
    ELSE LET completeness_score == calculate_data_completeness(collected_data) IN
         IF DoubleGE(completeness_score, D0_8)
         THEN [should_continue |-> FALSE, reason |-> "complete",
               confidence |-> completeness_score]
         ELSE IF DoubleGE(completeness_score, D0_6)
         THEN [should_continue |-> TRUE, reason |-> "basically_complete",
               confidence |-> completeness_score]
         ELSE [should_continue |-> TRUE, reason |-> "insufficient",
               confidence |-> completeness_score]

\* generate_next_question: None at the ceiling; otherwise line 44 evaluates
\* self.ai_service.generate_json_response, an attribute AIService does not
\* define (nor clean_and_parse_json, line 47), so the call raises
\* AttributeError before any provider request is made.
generate_next_question(collected_data, question_count, max_questions) ==
    IF question_count >= max_questions
    THEN [kind |-> "none"]
    ELSE [kind |-> "raise", error |-> "AttributeError"]

\* --------------------------------------------- app/services/ai_service.py
Activity(n) == [order |-> n, name |-> "name", description |-> "description", duration |-> 5]

DraftValid ==
    [title |-> "title", learning_objectives |-> <<"o1", "o2">>,
     teaching_outline |-> "outline", activities |-> <<Activity(1), Activity(2)>>]

DraftMissingKey ==
    [title |-> "title", learning_objectives |-> <<"o1", "o2">>,
     teaching_outline |-> "outline"]

DraftBadActivity ==
    [title |-> "title", learning_objectives |-> <<"o1", "o2">>,
     teaching_outline |-> "outline",
     activities |-> <<Activity(1), [order |-> 2, name |-> "name", description |-> "description"]>>]

\* JSON null, which is a value of a key that is present
JsonNull == "null"

\* a draft with every required key whose second activity has "name": null
DraftNullName ==
    [title |-> "title", learning_objectives |-> <<"o1", "o2">>,
     teaching_outline |-> "outline",
     activities |-> <<Activity(1),
                      [order |-> 2, name |-> JsonNull, description |-> "description",
                       duration |-> 5]>>]

\* What the provider exchange of generate_lesson_plan can come to: no response
\* after the retries, content that is no JSON, the empty JSON object, a draft.
LLMReplies ==
    {[kind |-> "api_none"], [kind |-> "not_json"], [kind |-> "json", value |-> EmptyDict],
     [kind |-> "json", value |-> DraftValid],
     [kind |-> "json", value |-> DraftMissingKey],
     [kind |-> "json", value |-> DraftBadActivity],
     [kind |-> "json", value |-> DraftNullName]}

required_keys == {"title", "learning_objectives", "teaching_outline", "activities"}

required_activity_keys == {"order", "name", "description", "duration"}

\* _validate_lesson_plan returns the plan, or raises ValueError (FALSE here)
validate_lesson_plan(lesson_plan) ==
    /\ required_keys \subseteq DOMAIN lesson_plan
    /\ \A i \in DOMAIN lesson_plan.activities :
          required_activity_keys \subseteq DOMAIN lesson_plan.activities[i]

\* generate_lesson_plan, lines 168-189, on the provider's reply
generate_lesson_plan(reply) ==
    IF reply.kind = "api_none" THEN [kind |-> "none"]
    ELSE IF reply.kind = "not_json" THEN [kind |-> "none"]
    ELSE IF reply.value = EmptyDict THEN [kind |-> "none"]
    ELSE IF validate_lesson_plan(reply.value)
    THEN [kind |-> "plan", plan |-> reply.value]
    ELSE [kind |-> "raise", error |-> "ValueError"]

\* --------------------------------- app/services/teaching_service.py: data
\* a start that opens the script whatever the mode
NewSession_script_only(user_id, use_dynamic_mode) ==
    [user_id |-> user_id,
     status |-> "in_progress",
     current_step |-> CONVERSATION_FLOW.start_step,
     collected_data |-> EmptyDict,
     history |-> <<>>,
     ai_questions_asked |-> 0,
     max_ai_questions |-> MaxAIQuestions,
     lesson_plan_id |-> NoPlan]

\* LessonCreationSession(...) of start_conversation
NewSession(user_id, use_dynamic_mode) ==
    [user_id |-> user_id,
     status |-> "in_progress",
     current_step |-> IF ~use_dynamic_mode THEN CONVERSATION_FLOW.start_step
                      ELSE "dynamic_question_1",
     collected_data |-> EmptyDict,
     history |-> <<>>,
     ai_questions_asked |-> 0,
     max_ai_questions |-> MaxAIQuestions,
     lesson_plan_id |-> NoPlan]

SessionFields ==
    {"user_id", "status", "current_step", "collected_data", "history",
     "ai_questions_asked", "max_ai_questions", "lesson_plan_id"}

get_question_card(step_key) ==
    [step_key |-> step_key, question |-> get_step_config(step_key).question]

get_dynamic_first_question ==
    [step_key |-> "dynamic_question_1", question |-> "q_dynamic_first"]

get_current_question_for_history(session) ==
    IF StartsWithDynamic(session.current_step)
    THEN IF session.history # <<>>
         THEN session.history[Len(session.history)].question
         ELSE "q_greeting"
    ELSE get_question_card(session.current_step).question

\* Keyword tables of the extractors, cut down to the answers of the model
SubjectKeyword(answer) == IF answer = "math" THEN "subject_math" ELSE ""

GradeKeyword(answer) == IF answer = "grade7" THEN "grade_7" ELSE ""

PositionalKeys(collected_data) ==
    {n \in 1 .. MaxAIQuestions :
        AnswerKey(n) \in DOMAIN collected_data /\ Truthy(collected_data[AnswerKey(n)])}

FirstMatch(collected_data, ns, Match(_)) ==
    LET hits == {n \in ns : Match(collected_data[AnswerKey(n)]) # ""} IN
    IF hits = {} THEN ""
    ELSE Match(collected_data[AnswerKey(CHOOSE n \in hits : \A m \in hits : n <= m)])

\* _extract_subject_from_collected_data (the second definition, lines 192-276,
\* which replaces the first): direct_subjects is bound only when the first
\* answer is non-empty, and read for every other non-empty positional answer.
extract_subject_from_collected_data(collected_data) ==
    LET first_answer == DictGet(collected_data, "question_1_answer", "")
        others == PositionalKeys(collected_data) \ {1}
    IN  IF Truthy(DictGet(collected_data, "subject", ""))
        THEN [kind |-> "ok", value |-> collected_data["subject"]]
        ELSE IF Truthy(first_answer) /\ SubjectKeyword(first_answer) # ""
        THEN [kind |-> "ok", value |-> SubjectKeyword(first_answer)]
        ELSE IF others # {} /\ ~Truthy(first_answer)
        THEN [kind |-> "raise", error |-> "UnboundLocalError"]
        ELSE [kind |-> "ok", value |-> FirstMatch(collected_data, others, SubjectKeyword)]

extract_grade_from_collected_data(collected_data) ==
    IF Truthy(DictGet(collected_data, "grade", ""))
    THEN [kind |-> "ok", value |-> collected_data["grade"]]
    ELSE [kind |-> "ok",
          value |-> FirstMatch(collected_data, PositionalKeys(collected_data), GradeKeyword)]

\* the LessonPlan row and the LessonPlanActivity rows of _save_lesson_plan
\* a save that files every plan under the first user
PlanRow_first_user(id, user_id, subject, grade, lesson_plan_data) ==
    [id |-> id, user_id |-> 1, title |-> lesson_plan_data.title,
     subject |-> subject, grade |-> grade]

PlanRow(id, user_id, subject, grade, lesson_plan_data) ==
    [id |-> id, user_id |-> user_id, title |-> lesson_plan_data.title,
     subject |-> subject, grade |-> grade]

\* a save that stores the first activity only
ActivityRows_first_only(id, lesson_plan_data) ==
    {[lesson_plan_id |-> id,
      order_index |-> lesson_plan_data.activities[i].order,
      activity_name |-> lesson_plan_data.activities[i].name,
      duration |-> lesson_plan_data.activities[i].duration]
        : i \in {1}}

ActivityRows(id, lesson_plan_data) ==
    {[lesson_plan_id |-> id,
      order_index |-> lesson_plan_data.activities[i].order,
      activity_name |-> lesson_plan_data.activities[i].name,
      duration |-> lesson_plan_data.activities[i].duration]
        : i \in DOMAIN lesson_plan_data.activities}

\* lesson_plan_activities.activity_name is NOT NULL: the INSERT of such a row
\* fails with IntegrityError when the commit flushes it
Insertable(activity_row) == activity_row.activity_name # JsonNull

\* ------------------------------------------------- the ORM unit of work
NoObj == <<>>

IdleReq == [pc |-> "idle", sid |-> 0, obj |-> NoObj, dirty |-> {}, err |-> "",
            resp |-> <<>>]

\* db.commit(): UPDATE of the modified columns of the row
WriteDirty(row, obj, dirty) ==
    [f \in SessionFields |-> IF f \in dirty THEN obj[f] ELSE row[f]]

\* a rollback that lets the appended history through
Rollback_history_kept(row, obj, dirty) == WriteDirty(row, obj, dirty \cap {"history"})

\* process_answer, line 110: db.rollback() drops what the request has not committed
\* a rollback that keeps the incremented counter
Rollback_counter_kept(row, obj, dirty) ==
    WriteDirty(row, obj, dirty \cap {"ai_questions_asked"})

\* an except branch that commits what the handler had written
Rollback_committed(row, obj, dirty) == WriteDirty(row, obj, dirty)

Rollback(row, obj, dirty) == row

\* except Exception: db.rollback(); raise HTTPException(500, ...)  (lines 109-116)
Failed(sid, kind) ==
    [pc |-> "done", sid |-> sid, obj |-> NoObj, dirty |-> {}, err |-> kind,
     resp |-> [http |-> 500, detail |-> "process_answer_failed"]]

\* a status check that knows completed only
StatusRejected_completed_only(session) == session.status = "completed"

\* a status check that forgets the processing state
StatusRejected_terminal_only(session) == session.status \in {"completed", "failed"}

\* a status check that lets a failed session be answered again
StatusRejected_failed_open(session) == session.status \in {"processing", "completed"}

\* process_answer, lines 100-101: if session.status != SessionStatus.in_progress
StatusRejected(session) == session.status # "in_progress"

\* _finalize_lesson_plan, line 587: session.status = SessionStatus.processing
EnterFinalize(sid, obj, dirty) ==
    [pc |-> "finalize", sid |-> sid,
     obj |-> [obj EXCEPT !.status = "processing"],
     dirty |-> dirty \cup {"status"}, err |-> "", resp |-> <<>>]

\* a failure branch whose status change is not committed
MarkFailed_uncommitted(row, obj) == row

\* a failure branch that hands the session back to the conversation
MarkFailed_reopened(row, obj) == [row EXCEPT !.status = "in_progress"]

\* _finalize_lesson_plan, lines 607-608: session.status = failed; db.commit()
MarkFailed(row, obj) == WriteDirty(row, [obj EXCEPT !.status = "failed"], {"status"})

\* a counter that moves the wrong way
AskedAfterAnswer_decrement(ai_questions_asked) == ai_questions_asked - 1

\* _process_dynamic_answer, line 486: session.ai_questions_asked += 1
AskedAfterAnswer(ai_questions_asked) == ai_questions_asked + 1

\* _process_dynamic_answer, lines 471-499
ProcessDynamicAnswer(sid, session, answer) ==
    LET obj == [session EXCEPT
                  !.history = Append(@, [step |-> session.current_step,
                                         question |-> get_current_question_for_history(session),
                                         answer |-> answer,
                                         question_count |-> session.ai_questions_asked + 1]),
                  !.collected_data = DictSet(@, AnswerKey(session.ai_questions_asked + 1), answer),
                  !.ai_questions_asked = AskedAfterAnswer(@)]
        dirty == {"history", "collected_data", "ai_questions_asked"}
        continue_decision ==
            should_continue_questioning(obj.collected_data, obj.ai_questions_asked,
                                        MinQuestions, obj.max_ai_questions)
    IN  IF ~continue_decision.should_continue
        THEN EnterFinalize(sid, obj, dirty)
        ELSE [pc |-> "next_question", sid |-> sid, obj |-> obj, dirty |-> dirty,
              err |-> "", resp |-> <<>>]

\* _process_traditional_answer, lines 536-565
ProcessTraditionalAnswer(sid, session, answer) ==
    IF ~has_step_config(session.current_step)
    THEN Failed(sid, "INVALID_STEP")
    ELSE LET current_step_config == get_step_config(session.current_step)
             obj == [session EXCEPT
                       !.history = Append(@, [step |-> session.current_step,
                                              question |-> get_question_card(session.current_step).question,
                                              answer |-> answer]),
                       !.collected_data = DictSet(@, current_step_config.key_to_save, answer)]
             dirty == {"history", "collected_data"}
             next_step == get_next_step(session.current_step)
         IN  IF next_step = "finalize"
             THEN EnterFinalize(sid, obj, dirty)
             ELSE [pc |-> "commit_step", sid |-> sid,
                   obj |-> [obj EXCEPT !.current_step = next_step],
                   dirty |-> dirty \cup {"current_step"}, err |-> "", resp |-> <<>>]

\* ---------------------------------------------------------------- actions
NoOut == <<>>

SysInit ==
    /\ sessions = <<>>
    /\ next_sid = 1
    /\ lesson_plans = {}
    /\ activities = {}
    /\ next_plan_id = 1
    /\ req = [r \in Requests |-> IdleReq]
    /\ calls = 0
    /\ gen_calls = [s \in SessionIds |-> 0]
    /\ proc_commits = [s \in SessionIds |-> 0]
    /\ plans_created = [s \in SessionIds |-> {}]
    /\ answers_sent = [s \in SessionIds |-> 0]

Init == SysInit /\ out = NoOut

\* start_conversation, lines 40-72
StartConversation(user_id, use_dynamic_mode) ==
    /\ next_sid <= MaxSessions
    /\ sessions' = [s \in (DOMAIN sessions) \cup {next_sid} |->
                       IF s = next_sid THEN NewSession(user_id, use_dynamic_mode)
                       ELSE sessions[s]]
    /\ next_sid' = next_sid + 1
    /\ out' = [call |-> "start_conversation",
               session_id |-> next_sid,
               question_card |-> IF use_dynamic_mode THEN get_dynamic_first_question
                                 ELSE get_question_card(CONVERSATION_FLOW.start_step),
               is_dynamic_mode |-> use_dynamic_mode]
    /\ UNCHANGED <<lesson_plans, activities, next_plan_id, req, calls, gen_calls,
                   proc_commits, answers_sent, plans_created>>

\* process_answer, lines 94-107, with the handler it dispatches to, up to the
\* handler's first commit or awaited call; a worker takes a request once its
\* previous response has left, and a request goes to the first free worker
\* (workers are interchangeable)
ProcessAnswer(r, session_id, answer) ==
    /\ req[r].pc \in {"idle", "done"}
    /\ \A q \in Requests : q < r => req[q].pc \notin {"idle", "done"}
    /\ calls < MaxCalls
    /\ calls' = calls + 1
    /\ req' = [req EXCEPT ![r] =
         IF session_id \notin DOMAIN sessions
         THEN Failed(session_id, "SESSION_NOT_FOUND")
         ELSE IF StatusRejected(sessions[session_id])
         THEN Failed(session_id, "INVALID_STATE")
         ELSE IF StartsWithDynamic(sessions[session_id].current_step)
         THEN ProcessDynamicAnswer(session_id, sessions[session_id], answer)
         ELSE ProcessTraditionalAnswer(session_id, sessions[session_id], answer)]
    /\ answers_sent' =
         IF session_id \in DOMAIN sessions /\ ~StatusRejected(sessions[session_id])
         THEN [answers_sent EXCEPT ![session_id] = @ + 1]
         ELSE answers_sent
    /\ UNCHANGED <<sessions, next_sid, lesson_plans, activities, next_plan_id,
                   gen_calls, proc_commits, plans_created>>
    /\ UNCHANGED out

\* _process_dynamic_answer, lines 501-523
NextQuestion(r) ==
    /\ req[r].pc = "next_question"
    /\ LET sid == req[r].sid
           obj == req[r].obj
           next_question == generate_next_question(obj.collected_data,
                                                   obj.ai_questions_asked,
                                                   obj.max_ai_questions)
       IN  IF next_question.kind = "raise"
           THEN /\ req' = [req EXCEPT ![r] = Failed(sid, "ATTRIBUTE_ERROR")]
                /\ sessions' = [sessions EXCEPT ![sid] = Rollback(@, obj, req[r].dirty)]
           ELSE IF next_question.kind = "none"
           THEN /\ req' = [req EXCEPT ![r] = EnterFinalize(sid, obj, req[r].dirty)]
                /\ UNCHANGED sessions
           ELSE LET step == DynamicStep(obj.ai_questions_asked + 1)
                    moved == [obj EXCEPT !.current_step = step]
                IN  /\ sessions' = [sessions EXCEPT ![sid] =
                          WriteDirty(@, moved, req[r].dirty \cup {"current_step"})]
                    /\ req' = [req EXCEPT ![r] =
                          [pc |-> "done", sid |-> sid, obj |-> NoObj, dirty |-> {},
                           err |-> "",
                           resp |-> [http |-> 200, status |-> "in_progress",
                                     is_dynamic_mode |-> TRUE,
                                     question_card |-> [step_key |-> step,
                                                        question |-> next_question.question]]]]
    /\ UNCHANGED <<next_sid, lesson_plans, activities, next_plan_id, calls, gen_calls,
                   proc_commits, answers_sent, plans_created>>
    /\ UNCHANGED out

\* _process_traditional_answer, lines 565-575
CommitStep(r) ==
    /\ req[r].pc = "commit_step"
    /\ LET sid == req[r].sid
           obj == req[r].obj
       IN  /\ sessions' = [sessions EXCEPT ![sid] = WriteDirty(@, obj, req[r].dirty)]
           /\ req' = [req EXCEPT ![r] =
                 [pc |-> "done", sid |-> sid, obj |-> NoObj, dirty |-> {}, err |-> "",
                  resp |-> [http |-> 200, status |-> "in_progress",
                            is_dynamic_mode |-> FALSE,
                            question_card |-> get_question_card(obj.current_step)]]]
    /\ UNCHANGED <<next_sid, lesson_plans, activities, next_plan_id, calls, gen_calls,
                   proc_commits, answers_sent, plans_created>>
    /\ UNCHANGED out

\* _finalize_lesson_plan, lines 587-591: commit of status = processing, then
\* the awaited generate_lesson_plan call is issued
CommitProcessing(r) ==
    /\ req[r].pc = "finalize"
    /\ LET sid == req[r].sid
           row == WriteDirty(sessions[sid], req[r].obj, req[r].dirty)
       IN  /\ sessions' = [sessions EXCEPT ![sid] = row]
           /\ req' = [req EXCEPT ![r] =
                 [pc |-> "generating", sid |-> sid, obj |-> row, dirty |-> {},
                  err |-> "", resp |-> <<>>]]
           /\ gen_calls' = [gen_calls EXCEPT ![sid] = @ + 1]
           /\ proc_commits' = [proc_commits EXCEPT ![sid] = @ + 1]
    /\ UNCHANGED <<next_sid, lesson_plans, activities, next_plan_id, calls, answers_sent,
                   plans_created>>
    /\ UNCHANGED out

\* _finalize_lesson_plan, lines 591-609, once generate_lesson_plan comes back
GenerateLessonPlanDone(r, reply) ==
    /\ req[r].pc = "generating"
    /\ LET sid == req[r].sid
           obj == req[r].obj
           lesson_plan_data == generate_lesson_plan(reply)
           subject == extract_subject_from_collected_data(obj.collected_data)
           grade == extract_grade_from_collected_data(obj.collected_data)
       IN  IF lesson_plan_data.kind = "raise"
           THEN /\ req' = [req EXCEPT ![r] = Failed(sid, "VALIDATION_ERROR")]
                /\ UNCHANGED <<sessions, lesson_plans, activities, next_plan_id, plans_created>>
           ELSE IF lesson_plan_data.kind = "none"
           THEN /\ sessions' = [sessions EXCEPT ![sid] = MarkFailed(@, obj)]
                /\ req' = [req EXCEPT ![r] = Failed(sid, "GENERATION_FAILED")]
                /\ UNCHANGED <<lesson_plans, activities, next_plan_id, plans_created>>
           ELSE IF subject.kind = "raise"
           THEN /\ req' = [req EXCEPT ![r] = Failed(sid, "UNBOUND_LOCAL_ERROR")]
                /\ UNCHANGED <<sessions, lesson_plans, activities, next_plan_id, plans_created>>
           ELSE IF \E a \in ActivityRows(next_plan_id, lesson_plan_data.plan) : ~Insertable(a)
           THEN \* the plan row was flushed (line 385) and took an id; the commit of
                \* line 598 fails on the activity and the transaction is rolled back
                /\ req' = [req EXCEPT ![r] = Failed(sid, "INTEGRITY_ERROR")]
                /\ next_plan_id' = next_plan_id + 1
                /\ UNCHANGED <<sessions, lesson_plans, activities, plans_created>>
           ELSE /\ lesson_plans' = lesson_plans \cup
                      {PlanRow(next_plan_id, obj.user_id, subject.value, grade.value,
                               lesson_plan_data.plan)}
                /\ activities' = activities \cup
                      ActivityRows(next_plan_id, lesson_plan_data.plan)
                /\ next_plan_id' = next_plan_id + 1
                /\ plans_created' = [plans_created EXCEPT ![sid] = @ \cup {next_plan_id}]
                /\ sessions' = [sessions EXCEPT ![sid] =
                      WriteDirty(@, [obj EXCEPT !.lesson_plan_id = next_plan_id,
                                                !.status = "completed"],
                                 {"lesson_plan_id", "status"})]
                /\ req' = [req EXCEPT ![r] =
                      [pc |-> "done", sid |-> sid, obj |-> NoObj, dirty |-> {},
                       err |-> "",
                       resp |-> [http |-> 200, status |-> "completed",
                                 is_dynamic_mode |-> StartsWithDynamic(obj.current_step),
                                 lesson_plan_id |-> next_plan_id]]]
    /\ UNCHANGED <<next_sid, calls, gen_calls, proc_commits, answers_sent>>
    /\ UNCHANGED out

RequestStep(r, answers) ==
    \/ \E session_id \in SessionIds, answer \in answers : ProcessAnswer(r, session_id, answer)
    \/ NextQuestion(r)
    \/ CommitStep(r)
    \/ CommitProcessing(r)
    \/ \E reply \in LLMReplies : GenerateLessonPlanDone(r, reply)

\* users are interchangeable: the n-th session is started by one of the first n
Start == \E user_id \in Users, use_dynamic_mode \in BOOLEAN :
             user_id <= next_sid /\ StartConversation(user_id, use_dynamic_mode)

\* requests of several workers, interleaved
Next == Start \/ \E r \in Requests : RequestStep(r, ConcurrentAnswers)

Spec == Init /\ [][Next]_vars

\* one request at a time: every answer() returns before the next is issued
SeqNext == Start \/ \E r \in SeqRequests : RequestStep(r, Answers)

SeqSpec == Init /\ [][SeqNext]_vars

\* ------------------------------------------------------------------ claims
FixedOrder == <<"ask_subject", "ask_grade", "ask_topic", "ask_duration">>

IsDynamic(session) == StartsWithDynamic(session.current_step)

HistorySteps(session) == [i \in 1 .. Len(session.history) |-> session.history[i].step]

\* a FIXED session has answered the script's steps in order, each once, and
\* stands at the step after the last one answered
FixedInOrder(session) ==
    /\ Len(session.history) <= Len(FixedOrder)
    /\ HistorySteps(session) = SubSeq(FixedOrder, 1, Len(session.history))
    /\ IF session.status = "in_progress"
       THEN /\ Len(session.history) < Len(FixedOrder)
            /\ session.current_step = FixedOrder[Len(session.history) + 1]
       ELSE /\ Len(session.history) = Len(FixedOrder)
            /\ session.current_step = "ask_duration"

StoredUnchanged ==
    /\ sessions' = sessions
    /\ lesson_plans' = lesson_plans
    /\ activities' = activities

Rejected(r) ==
    /\ req'[r].pc = "done"
    /\ req'[r].err = "INVALID_STATE"
    /\ req'[r].resp.http = 500

\* C2: an answer() issued for a session whose stored status is completed or
\* failed is rejected with the invalid-state error and changes no stored field.
C2_TerminalRejected ==
    [][\A r \in Requests, sid \in SessionIds, answer \in Answers :
          (/\ ProcessAnswer(r, sid, answer)
           /\ sid \in DOMAIN sessions
           /\ sessions[sid].status \in {"completed", "failed"})
             => Rejected(r) /\ StoredUnchanged]_vars

C2_Witness ==
    \E r \in Requests :
        /\ req[r].pc = "done"
        /\ req[r].err = "INVALID_STATE"
        /\ req[r].sid \in DOMAIN sessions
        /\ sessions[req[r].sid].status = "failed"
        /\ \A q \in Requests : req[q].pc \in {"idle", "done"}

StatusMoves ==
    {<<"in_progress", "in_progress">>, <<"in_progress", "processing">>,
     <<"processing", "processing">>, <<"processing", "completed">>,
     <<"processing", "failed">>, <<"completed", "completed">>, <<"failed", "failed">>}

C4_NullDraftFails ==
    [][\A r \in SeqRequests, reply \in LLMReplies :
          (GenerateLessonPlanDone(r, reply) /\ generate_lesson_plan(reply).kind = "none")
             => /\ sessions'[req[r].sid].status = "failed"
                /\ sessions'[req[r].sid].lesson_plan_id = NoPlan
                /\ lesson_plans' = lesson_plans
                /\ activities' = activities
                /\ req'[r].pc = "done"
                /\ req'[r].err = "GENERATION_FAILED"
                /\ req'[r].resp.http = 500]_vars

C4_Witness ==
    \E r \in SeqRequests :
        /\ req[r].pc = "done"
        /\ req[r].err = "GENERATION_FAILED"
        /\ sessions[req[r].sid].status = "failed"
        /\ sessions[req[r].sid].lesson_plan_id = NoPlan
        /\ lesson_plans = {}

\* C5: when the provider's draft is structurally invalid at finalize time, the
\* session is stored as failed, no lesson plan is stored, and the call ends in
\* an error.
C5_InvalidDraftFails ==
    [][\A r \in SeqRequests, reply \in LLMReplies :
          (/\ GenerateLessonPlanDone(r, reply)
           /\ reply.kind = "json"
           /\ reply.value # EmptyDict
           /\ ~validate_lesson_plan(reply.value))
             => /\ sessions'[req[r].sid].status = "failed"
                /\ lesson_plans' = lesson_plans
                /\ req'[r].pc = "done"
                /\ req'[r].resp.http = 500]_vars

InFlight(r, s) == req[r].obj # NoObj /\ req[r].sid = s

\* the loaded copy of session s that request r holds after the step
AskedInBounds(r, s) ==
    (req'[r].obj # NoObj /\ req'[r].sid = s) =>
        /\ req'[r].obj.ai_questions_asked >= sessions'[s].ai_questions_asked
        /\ req'[r].obj.ai_questions_asked <= req'[r].obj.max_ai_questions

\* C6: for every DYNAMIC session, ai_questions_asked never exceeds
\* max_ai_questions and never decreases, both as stored and as held by a call
\* that has counted its answer.
C6_AskedBounded ==
    [][\A s \in DOMAIN sessions :
          IsDynamic(sessions[s]) =>
             /\ sessions[s].ai_questions_asked <= sessions[s].max_ai_questions
             /\ sessions'[s].ai_questions_asked <= sessions'[s].max_ai_questions
             /\ sessions'[s].ai_questions_asked >= sessions[s].ai_questions_asked
             /\ \A r \in Requests : AskedInBounds(r, s)]_vars

C6_Witness ==
    \E s \in DOMAIN sessions, r \in Requests :
        /\ IsDynamic(sessions[s])
        /\ InFlight(r, s)
        /\ req[r].pc = "next_question"
        /\ req[r].obj.ai_questions_asked = 1
        /\ answers_sent[s] >= 2

\* C7: once a DYNAMIC session has been sent max_ai_questions answers and the
\* calls have returned, the session has been finalized: it is no longer
\* in_progress.
C7_MaxAnswersFinalize ==
    \A s \in DOMAIN sessions :
        (/\ IsDynamic(sessions[s])
         /\ answers_sent[s] >= sessions[s].max_ai_questions
         /\ \A r \in SeqRequests : req[r].pc \in {"idle", "done"})
           => sessions[s].status # "in_progress"

\* C8: in a DYNAMIC session, when the continuation policy says continue and no
\* question comes out of the generator, the call does not fail: it goes on to
\* finalize.
C8_GeneratorFailureFinalizes ==
    [][\A r \in SeqRequests :
          (/\ NextQuestion(r)
           /\ generate_next_question(req[r].obj.collected_data,
                                     req[r].obj.ai_questions_asked,
                                     req[r].obj.max_ai_questions).kind # "card")
             => /\ req'[r].err = ""
                /\ req'[r].pc = "finalize"
                /\ req'[r].obj.status = "processing"]_vars

\* C9: an answer() that arrives while another call on the same session has
\* committed status processing and is still generating is rejected with the
\* invalid-state error and changes nothing that is stored.
C9_ProcessingRejected ==
    [][\A r \in Requests, sid \in SessionIds, answer \in Answers :
          (/\ ProcessAnswer(r, sid, answer)
           /\ sid \in DOMAIN sessions
           /\ sessions[sid].status = "processing"
           /\ \E q \in Requests \ {r} : req[q].pc = "generating" /\ req[q].sid = sid)
             => /\ req'[r].pc = "done"
                /\ req'[r].err = "INVALID_STATE"
                /\ req'[r].obj = NoObj
                /\ sessions'[sid] = sessions[sid]
                /\ lesson_plans' = lesson_plans
                /\ activities' = activities
                /\ gen_calls' = gen_calls]_vars

C9_Witness ==
    \E r, q \in Requests :
        /\ r # q
        /\ req[q].pc = "generating"
        /\ req[r].pc = "done"
        /\ req[r].err = "INVALID_STATE"
        /\ req[r].sid = req[q].sid
        /\ sessions[req[q].sid].status = "processing"
        /\ proc_commits[req[q].sid] = 1

PlansOf(s) == {p \in lesson_plans : p.id \in plans_created[s]}

\* C10: under any interleaving of answer() calls on one session, status
\* processing is committed at most once, generate_lesson_plan is called at most
\* once, and at most one lesson plan is stored for the session.
C10_FinalizeOnce ==
    \A s \in DOMAIN sessions :
        /\ proc_commits[s] <= 1
        /\ gen_calls[s] <= 1
        /\ Cardinality(PlansOf(s)) <= 1

\* ------------------------------------------- the continuation policy alone
PolicyKeys == {key_weights[i].key : i \in DOMAIN key_weights}

\* every key absent, present but empty, or present with a value
PolicyData ==
    UNION {[present -> {"", "x"}] : present \in SUBSET PolicyKeys}
        \cup UNION {[{AnswerKey(i) : i \in 1 .. n} -> {"", "x"}] : n \in 1 .. MaxAIQuestions}

PolicyCounts == 0 .. MaxAIQuestions

PolicyInit ==
    /\ SysInit
    /\ out \in {[call |-> "should_continue_questioning", collected_data |-> cd,
                 question_count |-> n, returned |-> FALSE, result |-> <<>>] :
                   cd \in PolicyData, n \in PolicyCounts}

\* _process_dynamic_answer, lines 490-495: the call with min_questions 3 and
\* the session's max_ai_questions
ShouldContinue ==
    /\ out # NoOut
    /\ out.call = "should_continue_questioning"
    /\ ~out.returned
    /\ out' = [out EXCEPT !.returned = TRUE,
                          !.result = should_continue_questioning(
                                        out.collected_data, out.question_count,
                                        MinQuestions, MaxAIQuestions)]
    /\ UNCHANGED sysvars

PolicyNext == ShouldContinue

PolicySpec == PolicyInit /\ [][PolicyNext]_vars

PolicyReturned == out # NoOut /\ out.call = "should_continue_questioning" /\ out.returned

\* C11: for every collected_data and every question_count below the minimum 3,
\* should_continue_questioning returns should_continue = True with
\* confidence 1.0.
C11_BelowMinimumContinues ==
    (PolicyReturned /\ out.question_count < MinQuestions)
        => /\ out.result.should_continue
           /\ out.result.confidence = D1_0

C11_Witness ==
    /\ PolicyReturned
    /\ out.question_count = MinQuestions - 1
    /\ DOMAIN out.collected_data = PolicyKeys
    /\ \A k \in PolicyKeys : out.collected_data[k] = "x"
    /\ out.result.should_continue

\* the claim's score: the weights of the keys that are present with a value,
\* added as decimal numbers, in tenths, capped at 10
DecimalTenths(key) == IF key \in {"subject", "grade", "topic"} THEN 2 ELSE 1

RECURSIVE DecimalSum(_, _)
DecimalSum(collected_data, keys) ==
    IF keys = {} THEN 0
    ELSE LET k == CHOOSE x \in keys : TRUE IN
         (IF KeyScore(collected_data, k) THEN DecimalTenths(k) ELSE 0)
            + DecimalSum(collected_data, keys \ {k})

DecimalScore(collected_data) ==
    IF DecimalSum(collected_data, PolicyKeys) > 10 THEN 10
    ELSE DecimalSum(collected_data, PolicyKeys)

\* C12: with question_count 3 and max_questions 5, should_continue_questioning
\* stops exactly when the weighted score of the collected keys is at least
\* 0.8, and continues with the basically-complete reason from 0.6 up to 0.8.
C12_ThresholdByScore ==
    (PolicyReturned /\ out.question_count = MinQuestions)
        => /\ out.result.should_continue = (DecimalScore(out.collected_data) < 8)
           /\ (DecimalScore(out.collected_data) \in {6, 7})
                 => out.result.reason = "basically_complete"

\* --------------------------------------------- AIService._make_api_call alone
\* config.py line 34: llm_max_retries: int = 3
llm_max_retries == 3

\* How one client.post can end: a response with a status code and a body that
\* is JSON or is not, or an exception of httpx (timeout, connection error).
ProviderOutcomes ==
    {[kind |-> "response", status_code |-> 200, body |-> "json"],
     [kind |-> "response", status_code |-> 200, body |-> "text"],
     [kind |-> "response", status_code |-> 429, body |-> "json"],
     [kind |-> "response", status_code |-> 500, body |-> "text"],
     [kind |-> "exception", status_code |-> 0, body |-> ""]}

\* response.json(): the parsed body, or an exception when the body is no JSON
response_json(response) ==
    IF response.body = "json" THEN [kind |-> "value", value |-> "parsed_body"]
    ELSE [kind |-> "raise", error |-> "JSONDecodeError"]

\* one more pass of the loop than range(self.max_retries) makes
more_attempts_inclusive(attempt, max_retries) == attempt <= max_retries

\* line 40: for attempt in range(self.max_retries), attempt requests made so far
more_attempts(attempt, max_retries) == attempt < max_retries

ApiInit ==
    /\ SysInit
    /\ out \in {[call |-> "_make_api_call", max_retries |-> n, attempt |-> 0,
                 pending |-> FALSE, log |-> <<>>, returned |-> FALSE,
                 result |-> <<>>] : n \in 0 .. llm_max_retries}

ApiCall == out # NoOut /\ out.call = "_make_api_call"

\* lines 42-47: await client.post(...)
ApiPost ==
    /\ ApiCall
    /\ ~out.returned
    /\ ~out.pending
    /\ more_attempts(out.attempt, out.max_retries)
    /\ out' = [out EXCEPT !.attempt = @ + 1, !.pending = TRUE]
    /\ UNCHANGED sysvars

\* lines 49-57: the post has ended; return response.json() on status 200, and
\* continue on any other status and on any exception raised inside the try
ApiPostDone(outcome) ==
    /\ ApiCall
    /\ out.pending
    /\ out' =
         IF /\ outcome.kind = "response"
            /\ outcome.status_code = 200
            /\ response_json(outcome).kind = "value"
         THEN [out EXCEPT !.pending = FALSE, !.log = Append(@, outcome),
                          !.returned = TRUE,
                          !.result = [kind |-> "value",
                                      value |-> response_json(outcome).value]]
         ELSE [out EXCEPT !.pending = FALSE, !.log = Append(@, outcome)]
    /\ UNCHANGED sysvars

\* line 58: return None
ApiExhausted ==
    /\ ApiCall
    /\ ~out.returned
    /\ ~out.pending
    /\ ~more_attempts(out.attempt, out.max_retries)
    /\ out' = [out EXCEPT !.returned = TRUE, !.result = [kind |-> "none"]]
    /\ UNCHANGED sysvars

ApiNext ==
    \/ ApiPost
    \/ \E outcome \in ProviderOutcomes : ApiPostDone(outcome)
    \/ ApiExhausted

\* every post ends (the client's timeout bounds it) and the coroutine runs on
ApiSpec == ApiInit /\ [][ApiNext]_vars /\ WF_vars(ApiNext)

Is200(outcome) == outcome.kind = "response" /\ outcome.status_code = 200

Usable200(outcome) == Is200(outcome) /\ outcome.body = "json"

ApiBounded ==
    ApiCall =>
        /\ out.attempt <= out.max_retries
        /\ Len(out.log) = IF out.pending THEN out.attempt - 1 ELSE out.attempt
        /\ out.returned => ~out.pending
        /\ out.returned => out.result.kind \in {"value", "none"}

\* C13 (as the code has it): _make_api_call posts one request at a time and at
\* most max_retries of them, returns the parsed body of the first status-200
\* response whose body is JSON and posts nothing after it, returns None when
\* every attempt ended in another status, an exception or a 200 with a body
\* that is no JSON, lets no exception out, and always returns.
C13_RetryLoop ==
    /\ [](/\ ApiBounded
          /\ (ApiCall /\ out.returned) =>
                (IF \E i \in DOMAIN out.log : Usable200(out.log[i])
                 THEN /\ Usable200(out.log[Len(out.log)])
                      /\ \A i \in 1 .. Len(out.log) - 1 : ~Usable200(out.log[i])
                      /\ out.result = [kind |-> "value", value |-> "parsed_body"]
                 ELSE /\ out.result = [kind |-> "none"]
                      /\ Len(out.log) = out.max_retries))
    /\ <>(ApiCall /\ out.returned)

C13_Witness ==
    /\ ApiCall
    /\ out.returned
    /\ out.max_retries = llm_max_retries
    /\ Len(out.log) = llm_max_retries
    /\ out.log[1].kind = "exception"
    /\ out.log[2].status_code = 500
    /\ Usable200(out.log[3])
    /\ out.result.kind = "value"

\* C13 as stated: the call stops at the first HTTP 200 and returns that
\* response; None is returned only when every attempt ended in a non-200
\* status or an exception.
C13_StopsAtFirst200 ==
    (ApiCall /\ out.returned) =>
        IF \E i \in DOMAIN out.log : Is200(out.log[i])
        THEN /\ Is200(out.log[Len(out.log)])
             /\ \A i \in 1 .. Len(out.log) - 1 : ~Is200(out.log[i])
             /\ out.result.kind = "value"
        ELSE out.result = [kind |-> "none"]

C15_HistoryMatchesAsked ==
    \A s \in DOMAIN sessions :
        IsDynamic(sessions[s]) =>
            Len(sessions[s].history) = sessions[s].ai_questions_asked

C15_Witness ==
    \E s \in DOMAIN sessions, r \in Requests :
        /\ IsDynamic(sessions[s])
        /\ answers_sent[s] >= 2
        /\ req[r].pc = "done"
        /\ req[r].sid = s
        /\ req[r].err = "ATTRIBUTE_ERROR"
        /\ Len(sessions[s].history) = sessions[s].ai_questions_asked

\* a request that has counted as an answer to session s and has not committed yet
Uncommitted(s) ==
    Cardinality({r \in SeqRequests :
                    req[r].sid = s /\ req[r].pc \in {"commit_step", "finalize"}})

KeptData(old, new) ==
    /\ DOMAIN old \subseteq DOMAIN new
    /\ \A k \in DOMAIN old : new[k] = old[k]

KeptHistory(old, new) ==
    /\ Len(old) <= Len(new)
    /\ SubSeq(new, 1, Len(old)) = old

C17_StartCreatesSession ==
    [][\A user_id \in Users, use_dynamic_mode \in BOOLEAN :
          StartConversation(user_id, use_dynamic_mode) =>
             /\ next_sid \notin DOMAIN sessions
             /\ DOMAIN sessions' = (DOMAIN sessions) \cup {next_sid}
             /\ \A s \in DOMAIN sessions : sessions'[s] = sessions[s]
             /\ sessions'[next_sid].user_id = user_id
             /\ sessions'[next_sid].status = "in_progress"
             /\ sessions'[next_sid].collected_data = EmptyDict
             /\ sessions'[next_sid].history = <<>>
             /\ sessions'[next_sid].ai_questions_asked = 0
             /\ sessions'[next_sid].max_ai_questions = 5
             /\ sessions'[next_sid].lesson_plan_id = NoPlan
             /\ sessions'[next_sid].current_step =
                   IF use_dynamic_mode THEN "dynamic_question_1"
                   ELSE CONVERSATION_FLOW.start_step
             /\ out'.session_id = next_sid
             /\ out'.is_dynamic_mode = use_dynamic_mode
             /\ out'.question_card.step_key = sessions'[next_sid].current_step
             /\ gen_calls' = gen_calls
             /\ req' = req
             /\ lesson_plans' = lesson_plans]_vars

C17_Witness ==
    /\ out # NoOut
    /\ out.call = "start_conversation"
    /\ out.is_dynamic_mode
    /\ out.session_id = MaxSessions
    /\ sessions[out.session_id].current_step = "dynamic_question_1"
    /\ out.question_card.step_key = "dynamic_question_1"
    /\ ~IsDynamic(sessions[1])

\* what the caller of answer() has in hand when the call has failed
CallerSees(r) == req[r].resp

Distinguishable ==
    \A r, q \in Requests :
        (/\ req[r].pc = "done" /\ req[r].err = "SESSION_NOT_FOUND"
         /\ req[q].pc = "done" /\ req[q].err \in {"INVALID_STATE", "GENERATION_FAILED"})
           => CallerSees(r) # CallerSees(q)

\* C18: answer() for a session id that names no stored session fails with the
\* session-not-found error, which the caller can tell from the invalid-state
\* and generation-failed errors, creates no session and changes none.
C18_NotFoundDistinct ==
    [][/\ \A r \in Requests, sid \in SessionIds, answer \in Answers :
             (ProcessAnswer(r, sid, answer) /\ sid \notin DOMAIN sessions)
                => /\ req'[r].pc = "done"
                   /\ req'[r].err = "SESSION_NOT_FOUND"
                   /\ sessions' = sessions
                   /\ lesson_plans' = lesson_plans
       /\ Distinguishable']_vars

ActivitiesOf(plan_id) == {a \in activities : a.lesson_plan_id = plan_id}

\* every stored plan has its activities and every stored activity its plan
PlansWhole ==
    /\ \A p \in lesson_plans :
          {a.order_index : a \in ActivitiesOf(p.id)} = 1 .. Len(DraftValid.activities)
    /\ \A a \in activities : \E p \in lesson_plans : p.id = a.lesson_plan_id

\* C19: the lesson plan, all of its activities, and the session's
\* lesson_plan_id with status completed are stored by one commit: no stored
\* state holds a plan with part of its activities, and when an activity cannot
\* be stored neither the plan nor any activity is.
C19_PlanAtomic ==
    [][/\ PlansWhole
       /\ PlansWhole'
       /\ \A r \in Requests, reply \in LLMReplies :
             GenerateLessonPlanDone(r, reply) =>
                IF lesson_plans' # lesson_plans
                THEN /\ \E p \in lesson_plans' \ lesson_plans :
                           /\ lesson_plans' = lesson_plans \cup {p}
                           /\ activities' \ activities = ActivitiesOf(p.id)'
                           /\ Cardinality(ActivitiesOf(p.id)')
                                 = Len(generate_lesson_plan(reply).plan.activities)
                           /\ sessions'[req[r].sid].lesson_plan_id = p.id
                     /\ sessions'[req[r].sid].status = "completed"
                     /\ req'[r].err = ""
                ELSE /\ activities' = activities
                     /\ req'[r].err # ""
                     /\ sessions'[req[r].sid].status = "completed"
                            => sessions[req[r].sid].status = "completed"
                     /\ sessions'[req[r].sid].lesson_plan_id
                            = sessions[req[r].sid].lesson_plan_id]_vars

C19_Witness ==
    \E r \in Requests :
        /\ req[r].pc = "done"
        /\ req[r].err = "INTEGRITY_ERROR"
        /\ lesson_plans # {}
        /\ PlansWhole

\* --------------------------------------------- session queries, routers/session.py
\* members of the enum SessionStatus
SessionStatus == {"in_progress", "processing", "completed", "failed"}

\* SessionStatus.<name>: the member of that name, or AttributeError
SessionStatusMember(name) ==
    IF name \in SessionStatus THEN [kind |-> "value", value |-> name]
    ELSE [kind |-> "raise"]

\* mapped attributes of LessonCreationSession
LessonCreationSessionAttrs ==
    {"session_id", "user_id", "lesson_plan_id", "status", "current_step",
     "ai_questions_asked", "max_ai_questions", "collected_data", "history",
     "created_at", "updated_at", "user", "lesson_plan"}

\* get_active_sessions: the ids of the rows it returns, or an exception
get_active_sessions(user_id) ==
    LET members == {SessionStatusMember("IN_PROGRESS"),
                    SessionStatusMember("WAITING_FOR_INPUT")}
    IN  IF \E m \in members : m.kind = "raise" THEN [kind |-> "raise"]
        ELSE LET rows == {s \in DOMAIN sessions :
                             /\ sessions[s].user_id = user_id
                             /\ sessions[s].status \in {m.value : m \in members}}
             IN  IF rows # {} /\ "id" \notin LessonCreationSessionAttrs
                 THEN [kind |-> "raise"]
                 ELSE [kind |-> "value", value |-> rows]

\* query(LessonCreationSession).filter_by(id=session_id, user_id=user_id).first():
\* filter_by raises InvalidRequestError for a keyword that is no attribute
filter_by_id_user(session_id, user_id) ==
    IF ~({"id", "user_id"} \subseteq LessonCreationSessionAttrs) THEN [kind |-> "raise"]
    ELSE IF session_id \in DOMAIN sessions /\ sessions[session_id].user_id = user_id
    THEN [kind |-> "value", value |-> session_id]
    ELSE [kind |-> "none"]

get_session_info(session_id, user_id) == filter_by_id_user(session_id, user_id)

\* GET /api/sessions/active
GetActiveSessions(user_id) ==
    /\ LET result == get_active_sessions(user_id)
       IN  out' = IF result.kind = "raise"
                  THEN [call |-> "get_active_sessions", http |-> 500]
                  ELSE [call |-> "get_active_sessions", http |-> 200,
                        body |-> result.value]
    /\ UNCHANGED sysvars

\* GET /api/sessions/{session_id}
GetSessionInfo(session_id, user_id) ==
    /\ LET session_info == get_session_info(session_id, user_id)
       IN  out' = IF session_info.kind = "raise"
                  THEN [call |-> "get_session_info", http |-> 500]
                  ELSE IF session_info.kind = "none"
                  THEN [call |-> "get_session_info", http |-> 404]
                  ELSE [call |-> "get_session_info", http |-> 200,
                        body |-> session_info.value]
    /\ UNCHANGED sysvars

\* DELETE /api/sessions/{session_id}
DeleteSession(session_id, user_id) ==
    /\ LET session == filter_by_id_user(session_id, user_id)
       IN  IF session.kind = "raise"
           THEN /\ out' = [call |-> "delete_session", http |-> 500]
                /\ UNCHANGED sessions
           ELSE IF session.kind = "none"
           THEN /\ out' = [call |-> "delete_session", http |-> 404]
                /\ UNCHANGED sessions
           ELSE /\ out' = [call |-> "delete_session", http |-> 204]
                /\ sessions' = [s \in DOMAIN sessions \ {session.value} |-> sessions[s]]
    /\ UNCHANGED <<next_sid, lesson_plans, activities, next_plan_id, req, calls,
                   gen_calls, proc_commits, plans_created, answers_sent>>

QueryNext ==
    \/ SeqNext
    \/ \E user_id \in Users : GetActiveSessions(user_id)
    \/ \E session_id \in SessionIds, user_id \in Users : GetSessionInfo(session_id, user_id)
    \/ \E session_id \in SessionIds, user_id \in Users : DeleteSession(session_id, user_id)

QuerySpec == Init /\ [][QueryNext]_vars

Owned(session_id, user_id) ==
    session_id \in DOMAIN sessions /\ sessions[session_id].user_id = user_id

\* C20: the session queries are scoped to the owner: the list of active
\* sessions of a user is exactly that user's in_progress sessions; a session
\* is returned only to its owner; a delete by the owner removes that session
\* and no other, whatever its status, and any other delete reports not-found
\* and removes nothing.
C20_OwnershipScoped ==
    [][/\ \A user_id \in Users :
             GetActiveSessions(user_id) =>
                /\ out'.http = 200
                /\ out'.body = {s \in DOMAIN sessions :
                                   /\ sessions[s].user_id = user_id
                                   /\ sessions[s].status = "in_progress"}
       /\ \A session_id \in SessionIds, user_id \in Users :
             GetSessionInfo(session_id, user_id) =>
                IF Owned(session_id, user_id)
                THEN out'.http = 200 /\ out'.body = session_id
                ELSE out'.http = 404
       /\ \A session_id \in SessionIds, user_id \in Users :
             DeleteSession(session_id, user_id) =>
                IF Owned(session_id, user_id)
                THEN /\ out'.http = 204
                     /\ DOMAIN sessions' = DOMAIN sessions \ {session_id}
                     /\ \A s \in DOMAIN sessions' : sessions'[s] = sessions[s]
                ELSE /\ out'.http = 404
                     /\ sessions' = sessions]_vars

\* ------------------------------------ the finalize-time extractors alone
ExtractKeys == {"subject", "grade", AnswerKey(1), AnswerKey(2), AnswerKey(3)}

ExtractAnswers == {"", "a", "math", "grade7"}

\* any mix of semantic and positional keys, each answer empty or not
ExtractData == UNION {[present -> ExtractAnswers] : present \in SUBSET ExtractKeys}

ExtractInit ==
    /\ SysInit
    /\ out \in {[call |-> "_save_lesson_plan", collected_data |-> cd, returned |-> FALSE,
                 subject |-> <<>>, grade |-> <<>>] : cd \in ExtractData}

\* _save_lesson_plan, lines 368-369: the two extractor calls
ExtractSubjectGrade ==
    /\ out # NoOut
    /\ out.call = "_save_lesson_plan"
    /\ ~out.returned
    /\ out' = [out EXCEPT
                 !.returned = TRUE,
                 !.subject = extract_subject_from_collected_data(out.collected_data),
                 !.grade = extract_grade_from_collected_data(out.collected_data)]
    /\ UNCHANGED sysvars

ExtractNext == ExtractSubjectGrade

ExtractSpec == ExtractInit /\ [][ExtractNext]_vars

\* C21: for every collected_data, of semantic keys and question_<n>_answer
\* keys with empty or non-empty answers, both extractors return (a string,
\* empty when nothing matches) and neither raises.
C21_ExtractionNeverRaises ==
    (out # NoOut /\ out.call = "_save_lesson_plan" /\ out.returned)
        => /\ out.subject.kind = "ok"
           /\ out.grade.kind = "ok"

\* ----------------------------------- _clean_and_parse_json, ai_service.py
\* A content string is a sequence of pieces: the three backticks, the letters
\* json, a run of whitespace, the text of a JSON value, any other text.
Fence == "[3 backticks]"
Tag == "json"
Space == " "
Doc1 == "{'a': 1}"
Doc2 == "[2]"
Junk == "not json"

JsonDocs == {Doc1, Doc2}

Pieces == {Fence, Tag, Space, Junk} \cup JsonDocs

MaxPieces == 5

Contents == UNION {[1 .. n -> Pieces] : n \in 0 .. MaxPieces}

\* str.strip()
strip(content) ==
    LET solid == {i \in DOMAIN content : content[i] # Space}
    IN  IF solid = {} THEN <<>>
        ELSE SubSeq(content, CHOOSE i \in solid : \A j \in solid : i <= j,
                             CHOOSE i \in solid : \A j \in solid : j <= i)

startswith(content, prefix) ==
    Len(content) >= Len(prefix) /\ SubSeq(content, 1, Len(prefix)) = prefix

endswith(content, suffix) ==
    /\ Len(content) >= Len(suffix)
    /\ SubSeq(content, Len(content) - Len(suffix) + 1, Len(content)) = suffix

\* content[n:] and content[:-n], counted in pieces
DropFirst(content, n) == SubSeq(content, n + 1, Len(content))

DropLast(content, n) == SubSeq(content, 1, Len(content) - n)

\* json.loads: the value of a text that is one JSON value with whitespace
\* around it, JSONDecodeError for any other text
json_loads(content) ==
    IF Len(strip(content)) = 1 /\ strip(content)[1] \in JsonDocs
    THEN [kind |-> "value", value |-> strip(content)[1]]
    ELSE [kind |-> "raise", error |-> "JSONDecodeError"]

\* a cleaning that leaves the closing fence in place
clean_and_parse_json_closing_fence_kept(content) ==
    LET c1 == strip(content)
        c2 == IF startswith(c1, <<Fence, Tag>>) THEN DropFirst(c1, 2) ELSE c1
        c3 == IF startswith(c2, <<Fence>>) THEN DropFirst(c2, 1) ELSE c2
        parsed == json_loads(strip(c3))
    IN  IF parsed.kind = "raise" THEN [kind |-> "none"] ELSE parsed

clean_and_parse_json(content) ==
    LET c1 == strip(content)
        c2 == IF startswith(c1, <<Fence, Tag>>) THEN DropFirst(c1, 2) ELSE c1
        c3 == IF startswith(c2, <<Fence>>) THEN DropFirst(c2, 1) ELSE c2
        c4 == IF endswith(c3, <<Fence>>) THEN DropLast(c3, 1) ELSE c3
        parsed == json_loads(strip(c4))
    IN  IF parsed.kind = "raise" THEN [kind |-> "none"] ELSE parsed

ParseInit ==
    /\ SysInit
    /\ out \in {[call |-> "_clean_and_parse_json", content |-> c, returned |-> FALSE,
                 result |-> <<>>] : c \in Contents}

CleanAndParse ==
    /\ out # NoOut
    /\ out.call = "_clean_and_parse_json"
    /\ ~out.returned
    /\ out' = [out EXCEPT !.returned = TRUE, !.result = clean_and_parse_json(out.content)]
    /\ UNCHANGED sysvars

ParseNext == CleanAndParse

ParseSpec == ParseInit /\ [][ParseNext]_vars

ParseReturned == out # NoOut /\ out.call = "_clean_and_parse_json" /\ out.returned

Spaces == {<<>>, <<Space>>}

\* the text of a JSON value: bare, in a fence, in a fence tagged json
Wrapped(content, doc) ==
    \E before \in Spaces, after \in Spaces :
        content \in {before \o <<doc>> \o after,
                     <<Fence>> \o before \o <<doc>> \o after \o <<Fence>>,
                     <<Fence, Tag>> \o before \o <<doc>> \o after \o <<Fence>>}

HasFence(content) == \E i \in DOMAIN content : content[i] = Fence

\* C22: the text of a JSON value parses to that value whether it is bare or
\* wrapped in a fence, tagged json or not; a text without a fence parses as
\* json.loads parses it; a text that is no JSON value, wrapped or bare, gives
\* None; and no text makes the function raise.
C22_FenceTransparent ==
    ParseReturned =>
        /\ out.result.kind \in {"value", "none"}
        /\ \A doc \in JsonDocs :
              Wrapped(out.content, doc) => out.result = [kind |-> "value", value |-> doc]
        /\ ~HasFence(out.content) =>
              out.result = IF json_loads(out.content).kind = "value"
                           THEN json_loads(out.content) ELSE [kind |-> "none"]
        /\ out.result.kind = "value" =>
              \E i \in DOMAIN out.content : out.content[i] = out.result.value

C22_Witness ==
    /\ ParseReturned
    /\ out.content = <<Fence, Tag, Space, Doc1, Fence>>
    /\ out.result = [kind |-> "value", value |-> Doc1]

\* the text of the n-th question card a DYNAMIC session's client is given
CardText(n) ==
    IF n = 1 THEN get_dynamic_first_question.question
    ELSE "q_generated_" \o ToString(n)

\* the copies of session s: the stored row and the objects requests hold
Copies(s) == {sessions[s]} \cup {req[r].obj : r \in {q \in Requests : InFlight(q, s)}}

\* C23: in a DYNAMIC session the n-th history record has step
\* dynamic_question_<n> and, as its question, the text of the n-th question
\* card given to the client (the first question of start() for n = 1).
C23_HistoryQuestionFaithful ==
    \A s \in DOMAIN sessions : \A session \in Copies(s) :
        IsDynamic(session) =>
            \A n \in DOMAIN session.history :
                /\ session.history[n].step = DynamicStep(n)
                /\ session.history[n].question = CardText(n)

\* request r's answer() ends in this step with an error raised before finalize
FailsBeforeFinalize(r) ==
    /\ req'[r] # req[r]
    /\ req'[r].pc = "done"
    /\ req'[r].err \in {"INVALID_STEP", "ATTRIBUTE_ERROR"}

\* C24: an answer() that fails on an in_progress session before finalize has
\* begun (a step that is not in the script, or an exception while the next
\* question is generated) leaves every stored row as it was: the session is
\* still in_progress with its current_step, ai_questions_asked,
\* collected_data and history, and the answer is stored nowhere.
C24_FailedAnswerNoEffect ==
    [][\A r \in Requests :
          FailsBeforeFinalize(r)
             => /\ sessions' = sessions
                /\ sessions[req'[r].sid].status = "in_progress"
                /\ lesson_plans' = lesson_plans
                /\ activities' = activities
                /\ req'[r].resp.http = 500]_vars

C24_Witness ==
    \E r \in Requests :
        /\ req[r].pc = "done"
        /\ req[r].err = "ATTRIBUTE_ERROR"
        /\ sessions[req[r].sid].status = "in_progress"
        /\ sessions[req[r].sid].history = <<>>
        /\ sessions[req[r].sid].collected_data = EmptyDict
        /\ sessions[req[r].sid].ai_questions_asked = 0

ScriptSteps == {FixedOrder[i] : i \in DOMAIN FixedOrder}

\* a session's current_step has the form its mode prescribes
StepFitsMode(session) ==
    IsDynamic(session) \/ session.current_step \in ScriptSteps

\* C25: a session's mode never changes: start() creates the session in the
\* mode it is given, every later step leaves a DYNAMIC session at a
\* dynamic_question_<n> step and a FIXED session at a step of the script,
\* answer() takes the branch of the session's mode, and every response
\* carries that mode as is_dynamic_mode.
C25_ModeImmutable ==
    [][/\ \A s \in DOMAIN sessions :
             /\ s \in DOMAIN sessions'
             /\ IsDynamic(sessions'[s]) = IsDynamic(sessions[s])
             /\ StepFitsMode(sessions'[s])
       /\ \A user_id \in Users, use_dynamic_mode \in BOOLEAN :
             StartConversation(user_id, use_dynamic_mode) =>
                /\ IsDynamic(sessions'[next_sid]) = use_dynamic_mode
                /\ StepFitsMode(sessions'[next_sid])
                /\ out'.is_dynamic_mode = use_dynamic_mode
       /\ \A r \in Requests :
             /\ req'[r].obj # NoObj =>
                   /\ IsDynamic(req'[r].obj) = IsDynamic(sessions'[req'[r].sid])
                   /\ StepFitsMode(req'[r].obj)
             /\ req'[r].pc = "next_question" => IsDynamic(sessions'[req'[r].sid])
             /\ req'[r].pc = "commit_step" => ~IsDynamic(sessions'[req'[r].sid])
             /\ (req'[r].pc = "done" /\ req'[r].err = "") =>
                   req'[r].resp.is_dynamic_mode = IsDynamic(sessions'[req'[r].sid])]_vars

C25_Witness ==
    \E s \in DOMAIN sessions, t \in DOMAIN sessions, r \in Requests :
        /\ IsDynamic(sessions[s])
        /\ answers_sent[s] > 0
        /\ ~IsDynamic(sessions[t])
        /\ sessions[t].status = "completed"
        /\ req[r].pc = "done" /\ req[r].err = "" /\ req[r].sid = t
        /\ ~req[r].resp.is_dynamic_mode

\* the stored current_step of a DYNAMIC in_progress session is the step of
\* the question after the ones asked
StepFollowsAsked(session) ==
    (IsDynamic(session) /\ session.status = "in_progress")
        => session.current_step = DynamicStep(session.ai_questions_asked + 1)

\* C26: every stored DYNAMIC session that is in_progress stands at
\* dynamic_question_<ai_questions_asked + 1>, and a question card given to
\* the client of such a session, by start() or by answer(), carries the
\* current_step stored by the same call as its step key.
C26_StepTracksAsked ==
    [][/\ \A s \in DOMAIN sessions : StepFollowsAsked(sessions[s])
       /\ \A s \in DOMAIN sessions' : StepFollowsAsked(sessions'[s])
       /\ \A user_id \in Users :
             StartConversation(user_id, TRUE) =>
                out'.question_card.step_key = sessions'[out'.session_id].current_step
       /\ \A r \in Requests :
             (/\ req'[r] # req[r]
              /\ req'[r].pc = "done"
              /\ req'[r].err = ""
              /\ req'[r].resp.status = "in_progress"
              /\ IsDynamic(sessions'[req'[r].sid]))
                => req'[r].resp.question_card.step_key
                      = sessions'[req'[r].sid].current_step]_vars

C26_Witness ==
    \E s \in DOMAIN sessions :
        /\ IsDynamic(sessions[s])
        /\ sessions[s].status = "in_progress"
        /\ answers_sent[s] > 0
        /\ \A r \in Requests : ~InFlight(r, s)
        /\ out.call = "start_conversation"
        /\ out.session_id = s
        /\ out.question_card.step_key = sessions[s].current_step

\* the keys are those _process_dynamic_answer writes, and there is one at least
PurelyPositional(collected_data) ==
    /\ DOMAIN collected_data # {}
    /\ DOMAIN collected_data \subseteq {AnswerKey(n) : n \in 1 .. MaxAIQuestions}

\* C27: for collected_data whose keys are all question_<n>_answer the
\* completeness score is 0, so from the minimum on the policy stops the
\* questions only at max_questions: it continues after 3 and after 4 answers
\* and stops after 5.
C27_PositionalNeverComplete ==
    (PolicyReturned /\ PurelyPositional(out.collected_data))
        => /\ calculate_data_completeness(out.collected_data) = D0_0
           /\ out.result.should_continue <=> out.question_count < MaxAIQuestions
           /\ out.result.reason # "complete"

C27_Witness ==
    /\ PolicyReturned
    /\ out.collected_data = [k \in {AnswerKey(n) : n \in 1 .. 4} |-> "x"]
    /\ out.question_count = 4
    /\ out.result.should_continue

\* session s has a lesson plan exactly when it is completed, and the plan is
\* a stored plan of the session's user
PlanLinkSound(session) ==
    /\ session.lesson_plan_id # NoPlan <=> session.status = "completed"
    /\ session.lesson_plan_id # NoPlan =>
          \E p \in lesson_plans : /\ p.id = session.lesson_plan_id
                                  /\ p.user_id = session.user_id

C29_ProcessingTransient ==
    [][\A r \in SeqRequests, reply \in LLMReplies :
          GenerateLessonPlanDone(r, reply) =>
             /\ req'[r].pc = "done"
             /\ sessions'[req[r].sid].status \in {"completed", "failed"}]_vars

\* ------------------------------------ POST /answer, routers/teaching.py
\* the router's process_answer: current_user is resolved by get_current_user
\* and the service is called with the session id and the answer alone
RouterProcessAnswer(current_user, r, session_id, answer) ==
    /\ current_user \in Users
    /\ ProcessAnswer(r, session_id, answer)

OwnerNext ==
    \/ Start
    \/ \E r \in SeqRequests :
          \/ \E current_user \in Users, session_id \in SessionIds, answer \in Answers :
                RouterProcessAnswer(current_user, r, session_id, answer)
          \/ NextQuestion(r)
          \/ CommitStep(r)
          \/ CommitProcessing(r)
          \/ \E reply \in LLMReplies : GenerateLessonPlanDone(r, reply)

OwnerSpec == Init /\ [][OwnerNext]_vars

\* C30: an answer() sent by an authenticated user who did not create the
\* session is turned away: it ends with an error, no field of the session
\* changes and no lesson plan is created.
C30_OnlyOwnerAdvances ==
    [][\A current_user \in Users, r \in SeqRequests, session_id \in SessionIds,
          answer \in Answers :
          (/\ RouterProcessAnswer(current_user, r, session_id, answer)
           /\ session_id \in DOMAIN sessions
           /\ sessions[session_id].user_id # current_user)
             => /\ req'[r].pc = "done"
                /\ req'[r].err # ""
                /\ sessions' = sessions
                /\ lesson_plans' = lesson_plans]_vars
====
